---- MODULE Spec2Model ----
(***************************************************************************)
(* A model of src/test1.py: the time-series pipeline                       *)
(*   load_data -> resample_frames -> impute_variants -> iqr_clip ->        *)
(*   rolling_stats -> hour_of_day_pattern -> lag_correlation               *)
(* and of main(), which runs the stages in order and writes the artifacts. *)
(*                                                                         *)
(* Conventions.                                                            *)
(*  - A cell of a table is <<>> when absent (NaN / NaT / None) and <<v>>   *)
(*    when it holds the value v.                                           *)
(*  - A column name is a sequence of one-character strings, so that        *)
(*    str.lower() and the `in` substring test can be computed.             *)
(*  - Timestamps are whole hours since the epoch.                          *)
(*  - Arithmetic is exact (integers and ratios of integers).  The float64   *)
(*    rounding of numpy is modelled in two places: round(x, 4), and the    *)
(*    comparison of two correlations in lag_correlation, which may go      *)
(*    either way when the two are equal in exact arithmetic (their float64 *)
(*    values can differ in the last bits, as 0.9999999999999999 and 1.0).  *)
(***************************************************************************)
EXTENDS Integers, Sequences, FiniteSets, TLC

VARIABLES
    pc,        \* position of the running function / of main()
    table,     \* load_data: the frame read by pd.read_csv
    loaded,    \* load_data: its outcome (a frame or a raised ValueError)
    stages,    \* main: the stages that have run, in order
    files,     \* main: the artifact files written under output/
    daily,     \* iqr_clip: the daily grid given
    clipres,   \* iqr_clip: (flags, clipped)
    hourly,    \* rolling_stats / hour_of_day_pattern / lag_correlation: the grid given
    max_lag,   \* lag_correlation: its max_lag argument
    roll,      \* rolling_stats: its result
    hod,       \* hour_of_day_pattern: its result
    lagres     \* lag_correlation: its outcome (rows or a raised KeyError)

vars == <<pc, table, loaded, stages, files, daily, clipres, hourly, max_lag, roll, hod, lagres>>

(***************************************************************************)
(* Bounds of the model.                                                    *)
(***************************************************************************)
MaxCols == 3      \* columns of the frame given to load_data
MaxRows == 3      \* rows of the frame given to load_data
MaxStamp == 2     \* distinct parseable timestamps 1..MaxStamp
ManyRows == 18    \* rows of the long frames given to load_data

NA == <<>>
Some(v) == <<v>>
IsNA(c) == c = <<>>
Val(c) == c[1]

Null == [none |-> TRUE]

Range(s) == {s[i] : i \in 1..Len(s)}

RECURSIVE SumOver(_, _)
\* the sum of f[i] over the finite set S of indices
SumOver(S, f) ==
    IF S = {} THEN 0
    ELSE LET i == CHOOSE x \in S : TRUE IN f[i] + SumOver(S \ {i}, f)

(***************************************************************************)
(* ndarray.argsort(kind="quicksort"), the sort behind DataFrame.sort_values *)
(* with its default kind.  numpy's indirect quicksort partitions a range of *)
(* more than 17 elements around the median of three and sorts a shorter    *)
(* range by insertion; the insertion sort keeps equal keys in order, the   *)
(* partition does not.  v holds whole-number keys, t the indices sorted.   *)
(* This is numpy's portable code path; its depth limit (heapsort after     *)
(* 2 * log2(n) partitions) is not reached at the sizes used here.          *)
(***************************************************************************)
swap(t, i, j) == [t EXCEPT ![i] = t[j], ![j] = t[i]]

\* do ++pi while v[*pi] < vp
RECURSIVE scan_up(_, _, _, _)
scan_up(v, t, pi, vp) == IF v[t[pi]] < vp THEN scan_up(v, t, pi + 1, vp) ELSE pi

\* do --pj while vp < v[*pj]
RECURSIVE scan_down(_, _, _, _)
scan_down(v, t, pj, vp) == IF vp < v[t[pj]] THEN scan_down(v, t, pj - 1, vp) ELSE pj

\* the for (;;) loop of the partition; yields <<t, pi>>
RECURSIVE partition_loop(_, _, _, _, _)
partition_loop(v, t, pi, pj, vp) ==
    LET pi2 == scan_up(v, t, pi + 1, vp)
        pj2 == scan_down(v, t, pj - 1, vp)
    IN IF pi2 >= pj2 THEN <<t, pi2>>
       ELSE partition_loop(v, swap(t, pi2, pj2), pi2, pj2, vp)

\* one partition of the range pl..pr; yields <<t, pi>>, pi the place of the pivot
partition(v, t, pl, pr) ==
    LET pm == pl + (pr - pl) \div 2
        t1 == IF v[t[pm]] < v[t[pl]] THEN swap(t, pm, pl) ELSE t
        t2 == IF v[t1[pr]] < v[t1[pm]] THEN swap(t1, pr, pm) ELSE t1
        t3 == IF v[t2[pm]] < v[t2[pl]] THEN swap(t2, pm, pl) ELSE t2
        vp == v[t3[pm]]
        t4 == swap(t3, pm, pr - 1)
        done == partition_loop(v, t4, pl, pr - 1, vp)
    IN <<swap(done[1], done[2], pr - 1), done[2]>>

\* the inner while of the insertion sort: the place of the index vi in pl..pj
RECURSIVE insert_place(_, _, _, _, _)
insert_place(v, t, vi, pj, pl) ==
    IF pj > pl /\ v[vi] < v[t[pj - 1]]
    THEN insert_place(v, [t EXCEPT ![pj] = t[pj - 1]], vi, pj - 1, pl)
    ELSE [t EXCEPT ![pj] = vi]

\* the insertion sort of the range pl..pr, from place pi on
RECURSIVE insertion_sort(_, _, _, _, _)
insertion_sort(v, t, pi, pl, pr) ==
    IF pi > pr THEN t
    ELSE insertion_sort(v, insert_place(v, t, t[pi], pi, pl), pi + 1, pl, pr)

\* the sort of the range pl..pr (the two parts of a partition are sorted on their
\* own, so the order in which the stack hands them out does not matter)
RECURSIVE aquicksort(_, _, _, _)
aquicksort(v, t, pl, pr) ==
    IF pr - pl > 16
    THEN LET part == partition(v, t, pl, pr)
         IN aquicksort(v, aquicksort(v, part[1], pl, part[2] - 1), part[2] + 1, pr)
    ELSE insertion_sort(v, t, pl + 1, pl, pr)

\* v.argsort(kind="quicksort")
argsort(v) == aquicksort(v, [i \in 1..Len(v) |-> i], 1, Len(v))

reversed(s) == [i \in 1..Len(s) |-> s[Len(s) + 1 - i]]

\* pandas nargsort: ascending, the argsort of the keys; descending, the keys are
\* reversed, argsorted and the outcome reversed again
nargsort(v, is_ascending) ==
    IF is_ascending THEN argsort(v)
    ELSE LET a == argsort(reversed(v))
         IN reversed([k \in 1..Len(v) |-> Len(v) + 1 - a[k]])

(***************************************************************************)
(* load_data                                                               *)
(***************************************************************************)
UpperCase == <<"A","B","C","D","E","F","G","H","I","J","K","L","M",
               "N","O","P","Q","R","S","T","U","V","W","X","Y","Z">>
LowerCase == <<"a","b","c","d","e","f","g","h","i","j","k","l","m",
               "n","o","p","q","r","s","t","u","v","w","x","y","z">>

\* str.lower() of one character
LowerChar(ch) ==
    IF \E i \in 1..Len(UpperCase) : UpperCase[i] = ch
    THEN LowerCase[CHOOSE i \in 1..Len(UpperCase) : UpperCase[i] = ch]
    ELSE ch

\* str.lower()
lower(s) == [i \in 1..Len(s) |-> LowerChar(s[i])]

\* sub in s
Contains(s, sub) ==
    \E i \in 1..(Len(s) - Len(sub) + 1) : SubSeq(s, i, i + Len(sub) - 1) = sub

str_datetime == <<"d","a","t","e","t","i","m","e">>
str_date == <<"d","a","t","e">>
str_time == <<"t","i","m","e">>
str_timestamp == <<"t","i","m","e","s","t","a","m","p">>

\* the tuple ("datetime", "date", "time", "timestamp")
Aliases == {str_datetime, str_date, str_time, str_timestamp}

\* c.lower() in (aliases)
IsExactAlias(c) == lower(c) \in Aliases

\* the condition of the loop over df.columns: one disjunction, tried per column
IsDateTimeName(c) ==
    IsExactAlias(c) \/ Contains(lower(c), str_date) \/ Contains(lower(c), str_time)

\* the for loop with break: the first column, in column order, that satisfies the
\* condition; 0 stands for dt_col = None
dt_col(cols) ==
    IF \E i \in 1..Len(cols) : IsDateTimeName(cols[i].name)
    THEN CHOOSE i \in 1..Len(cols) :
            /\ IsDateTimeName(cols[i].name)
            /\ \A j \in 1..(i - 1) : ~IsDateTimeName(cols[j].name)
    ELSE 0

\* dropna(subset=[dt_col]): the rows whose timestamp parsed, in input order
RECURSIVE dropna(_, _)
dropna(rows, i) ==
    IF i > Len(rows) THEN <<>>
    ELSE IF IsNA(rows[i]) THEN dropna(rows, i + 1)
    ELSE <<[ts |-> Val(rows[i]), row |-> i]>> \o dropna(rows, i + 1)

\* sort_values(dt_col): ascending, kind defaults to "quicksort"
sort_values(recs) ==
    LET indexer == nargsort([i \in 1..Len(recs) |-> recs[i].ts], TRUE)
    IN [i \in 1..Len(recs) |-> recs[indexer[i]]]

\* drop_duplicates(subset=[dt_col]): keep="first", the first row of each timestamp
RECURSIVE drop_duplicates(_, _)
drop_duplicates(recs, i) ==
    IF i > Len(recs) THEN <<>>
    ELSE IF \E j \in 1..(i - 1) : recs[j].ts = recs[i].ts
         THEN drop_duplicates(recs, i + 1)
         ELSE <<recs[i]>> \o drop_duplicates(recs, i + 1)

\* df.select_dtypes(include="number").columns after set_index(dt_col)
RECURSIVE select_dtypes(_, _, _)
select_dtypes(cols, dt, i) ==
    IF i > Len(cols) THEN <<>>
    ELSE IF i # dt /\ cols[i].dtype = "number"
         THEN <<cols[i].name>> \o select_dtypes(cols, dt, i + 1)
         ELSE select_dtypes(cols, dt, i + 1)

\* if dt_col is None: raise
dt_col_missing(dt) == dt = 0

\* as no_value_cols, never raising
no_value_cols_never(value_cols) == FALSE
\* if not value_cols: raise
no_value_cols(value_cols) == value_cols = <<>>

\* load_data on the frame t: the frame returned, or the ValueError raised
load_data(t) ==
    LET dt == dt_col(t.cols) IN
    IF dt_col_missing(dt)
    THEN [status |-> "ValueError", dt_col |-> 0, index |-> <<>>, columns |-> <<>>]
    ELSE LET value_cols == select_dtypes(t.cols, dt, 1) IN
         IF no_value_cols(value_cols)
         THEN [status |-> "ValueError", dt_col |-> dt, index |-> <<>>, columns |-> <<>>]
         ELSE [status |-> "ok", dt_col |-> dt,
               index |-> drop_duplicates(sort_values(dropna(t.rows, 1)), 1),
               columns |-> value_cols]

\* the columns a frame may have: a name and whether pandas reads it as numeric
ColumnPool == {
    [name |-> <<"D","a","t","e">>, dtype |-> "object"],
    [name |-> <<"u","p","d","a","t","e","d">>, dtype |-> "number"],
    [name |-> <<"t","i","m","e","s","t","a","m","p">>, dtype |-> "object"],
    [name |-> <<"n","o","2">>, dtype |-> "number"],
    [name |-> <<"s","i","t","e">>, dtype |-> "object"] }

\* read_csv gives every column its own name
Frames ==
    {c \in UNION {[1..n -> ColumnPool] : n \in 0..MaxCols} :
        \A i, j \in 1..Len(c) : c[i].name = c[j].name => i = j}

\* per row, pd.to_datetime(errors="coerce") of its value in the date/time column:
\* every frame of up to MaxRows rows, and frames of ManyRows rows that read one
\* timestamp in the first h rows and a later one in the rest
ParsedRows ==
    UNION {[1..n -> {NA} \cup {Some(v) : v \in 1..MaxStamp}] : n \in 0..MaxRows}
    \cup {[k \in 1..ManyRows |-> IF k <= h THEN Some(1) ELSE Some(2)] : h \in 0..ManyRows}

(***************************************************************************)
(* lag_correlation: the enumeration of the pairs                           *)
(***************************************************************************)
\* for i in range(len(cols)): for j in range(i + 1, len(cols)), in that order
RECURSIVE pair_list(_, _, _)
pair_list(n, i, j) ==
    IF i > n THEN <<>>
    ELSE IF j > n THEN pair_list(n, i + 1, i + 2)
    ELSE <<(<<i, j>>)>> \o pair_list(n, i, j + 1)

\* pd.DataFrame(results).sort_values("corr"): a frame built from an empty list has
\* no column "corr", and sort_values raises KeyError
sort_raises(results) == results = <<>>

(***************************************************************************)
(* main                                                                    *)
(***************************************************************************)
NoFrame == [status |-> "none", dt_col |-> 0, index |-> <<>>, columns |-> <<>>]

\* step 1: ensure_dir(out_dir), load_data, missing_report
Main_load ==
    /\ pc = "start"
    /\ loaded' = load_data(table)
    /\ pc' = IF loaded'.status = "ok" THEN "loaded" ELSE "raised"
    /\ stages' = IF loaded'.status = "ok" THEN <<"load_data", "missing_report">>
                 ELSE <<"load_data">>
    /\ UNCHANGED <<table, files, daily, clipres, hourly, max_lag, roll, hod, lagres>>

\* step 2: resample_frames
Main_resample ==
    /\ pc = "loaded"
    /\ pc' = "resampled"
    /\ stages' = Append(stages, "resample_frames")
    /\ UNCHANGED <<table, loaded, files, daily, clipres, hourly, max_lag, roll, hod, lagres>>

\* step 3: impute_variants and its two files
Main_impute ==
    /\ pc = "resampled"
    /\ pc' = "imputed"
    /\ stages' = Append(stages, "impute_variants")
    /\ files' = files \cup {"imputed_ffill_bfill_hourly.csv", "imputed_interpolate_hourly.csv"}
    /\ UNCHANGED <<table, loaded, daily, clipres, hourly, max_lag, roll, hod, lagres>>

\* step 4: iqr_clip and its two files
Main_iqr ==
    /\ pc = "imputed"
    /\ pc' = "clipped"
    /\ stages' = Append(stages, "iqr_clip")
    /\ files' = files \cup {"outlier_flags_daily.csv", "daily_clipped.csv"}
    /\ UNCHANGED <<table, loaded, daily, clipres, hourly, max_lag, roll, hod, lagres>>

\* step 5: rolling_stats and its file
Main_rolling ==
    /\ pc = "clipped"
    /\ pc' = "rolled"
    /\ stages' = Append(stages, "rolling_stats")
    /\ files' = files \cup {"rolling_24h_stats.csv"}
    /\ UNCHANGED <<table, loaded, daily, clipres, hourly, max_lag, roll, hod, lagres>>

\* step 6: hour_of_day_pattern and its file
Main_hod ==
    /\ pc = "rolled"
    /\ pc' = "patterned"
    /\ stages' = Append(stages, "hour_of_day_pattern")
    /\ files' = files \cup {"hour_of_day_mean.csv"}
    /\ UNCHANGED <<table, loaded, daily, clipres, hourly, max_lag, roll, hod, lagres>>

\* step 7: hourly.corr and its file, then lag_correlation, which raises when the
\* frame has fewer than two value columns, and its file
Main_lag ==
    /\ pc = "patterned"
    /\ stages' = Append(stages, "lag_correlation")
    /\ IF sort_raises(pair_list(Len(loaded.columns), 1, 2))
       THEN /\ pc' = "raised"
            /\ files' = files \cup {"corr_hourly.csv"}
       ELSE /\ pc' = "correlated"
            /\ files' = files \cup {"corr_hourly.csv", "best_lag_corr.csv"}
    /\ UNCHANGED <<table, loaded, daily, clipres, hourly, max_lag, roll, hod, lagres>>

\* step 8: the daily means and the missing report
Main_export ==
    /\ pc = "correlated"
    /\ pc' = "exported"
    /\ stages' = Append(stages, "export")
    /\ files' = files \cup {"daily_mean.csv", "missing_report.csv"}
    /\ UNCHANGED <<table, loaded, daily, clipres, hourly, max_lag, roll, hod, lagres>>

\* step 9: plots, which returns at once when matplotlib/seaborn did not import
Main_plots ==
    /\ pc = "exported"
    /\ pc' = "done"
    /\ stages' = Append(stages, "plots")
    /\ \E HAS_PLOT \in BOOLEAN :
        files' = IF HAS_PLOT
                 THEN files \cup {"ts_hourly.png", "ts_daily.png", "corr_heatmap.png"}
                 ELSE files
    /\ UNCHANGED <<table, loaded, daily, clipres, hourly, max_lag, roll, hod, lagres>>

Init ==
    /\ pc = "start"
    /\ table \in {[cols |-> c, rows |-> r] : c \in Frames, r \in ParsedRows}
    /\ loaded = NoFrame
    /\ stages = <<>>
    /\ files = {}
    /\ daily = Null /\ clipres = Null /\ hourly = Null /\ max_lag = 0
    /\ roll = Null /\ hod = Null /\ lagres = Null

Next ==
    \/ Main_load
    \/ Main_resample
    \/ Main_impute
    \/ Main_iqr
    \/ Main_rolling
    \/ Main_hod
    \/ Main_lag
    \/ Main_export
    \/ Main_plots

Spec == Init /\ [][Next]_vars

(***************************************************************************)
(* Claims about load_data and main, under Spec.                            *)
(***************************************************************************)
HasExactAlias(cols) == \E i \in 1..Len(cols) : IsExactAlias(cols[i].name)

FirstExactAlias(cols) ==
    CHOOSE i \in 1..Len(cols) :
        /\ IsExactAlias(cols[i].name)
        /\ \A j \in 1..(i - 1) : ~IsExactAlias(cols[j].name)

\* C3: when some column name is an exact alias (datetime, date, time, timestamp,
\* case-insensitively), load_data takes the first exact alias as the date/time
\* column, even when an earlier column merely contains "date" or "time".
C3_ExactAliasFirst ==
    (pc # "start" /\ HasExactAlias(table.cols))
        => loaded.dt_col = FirstExactAlias(table.cols)

\* the rows of the input whose timestamp parsed to ts
RowsOf(ts) == {r \in 1..Len(table.rows) : table.rows[r] = Some(ts)}

\* C8: after load_data the index is strictly increasing (hence unique), holds only
\* rows whose timestamp parsed, and of the rows that share a timestamp the one
\* retained is the first in input order.
C8_FirstInputRowKept ==
    loaded.status = "ok" =>
        /\ \A i, j \in 1..Len(loaded.index) :
                i < j => loaded.index[i].ts < loaded.index[j].ts
        /\ \A i \in 1..Len(loaded.index) :
                /\ loaded.index[i].row \in RowsOf(loaded.index[i].ts)
                /\ \A r \in RowsOf(loaded.index[i].ts) : loaded.index[i].row <= r

NoDateTimeColumn(cols) == \A i \in 1..Len(cols) : ~IsDateTimeName(cols[i].name)

\* no numeric column besides the one taken as the date/time column
NoMeasurementColumn(cols) ==
    \A i \in 1..Len(cols) : cols[i].dtype = "number" => i = dt_col(cols)

ArtifactStages ==
    {"resample_frames", "impute_variants", "iqr_clip", "rolling_stats",
     "hour_of_day_pattern", "lag_correlation", "export", "plots"}

\* C9: when the frame has no date/time column or no numeric measurement column,
\* load_data raises ValueError and returns no frame, main stops there: no later
\* stage runs and no artifact file is written.
C9_StructuralErrorAborts ==
    (NoDateTimeColumn(table.cols) \/ NoMeasurementColumn(table.cols)) =>
        /\ files = {}
        /\ Range(stages) \cap ArtifactStages = {}
        /\ pc \in {"start", "raised"}
        /\ pc = "raised" =>
              /\ loaded.status = "ValueError"
              /\ loaded.index = <<>> /\ loaded.columns = <<>>

\* load_data has raised for want of a numeric column, a date/time column being there
C9_Witness ==
    /\ pc = "raised"
    /\ loaded.status = "ValueError"
    /\ ~NoDateTimeColumn(table.cols)
    /\ NoMeasurementColumn(table.cols)
    /\ Len(table.rows) > 0

(***************************************************************************)
(* iqr_clip.  Daily values are whole numbers; a quartile is held in        *)
(* quarters (4 * Q) and a bound or a clipped value in eighths (8 * x), so  *)
(* that linear interpolation and 1.5 * IQR stay exact.                     *)
(***************************************************************************)
MaxDays == 4      \* rows of the enumerated daily grids

\* s.dropna(), as the sequence of the values present
RECURSIVE present_values(_, _)
present_values(col, i) ==
    IF i > Len(col) THEN <<>>
    ELSE IF IsNA(col[i]) THEN present_values(col, i + 1)
    ELSE <<Val(col[i])>> \o present_values(col, i + 1)

\* insert v into the ascending sequence s
RECURSIVE insert_sorted(_, _)
insert_sorted(s, v) ==
    IF s = <<>> THEN <<v>>
    ELSE IF v <= Head(s) THEN <<v>> \o s
    ELSE <<Head(s)>> \o insert_sorted(Tail(s), v)

\* the values in ascending order (quantile works on the sorted sample)
RECURSIVE sorted(_)
sorted(s) == IF s = <<>> THEN <<>> ELSE insert_sorted(sorted(Tail(s)), Head(s))

\* 4 * s.quantile(k / 4) of the ascending sample s: interpolation="linear" between the
\* order statistics around position (n - 1) * k / 4
quantile4(s, k) ==
    LET pos == (Len(s) - 1) * k
        lo == pos \div 4
        r == pos % 4
    IN IF r = 0 THEN 4 * s[lo + 1]
       ELSE 4 * s[lo + 1] + r * (s[lo + 2] - s[lo + 1])

\* (8 * lo, 8 * hi) with lo = q1 - 1.5 * iqr and hi = q3 + 1.5 * iqr
iqr_bounds8(s) ==
    LET q1 == quantile4(s, 1)
        q3 == quantile4(s, 3)
        iqr == q3 - q1
    IN <<2 * q1 - 3 * iqr, 2 * q3 + 3 * iqr>>

\* as is_outlier, the bounds themselves flagged
is_outlier_nonstrict(cell, b) ==
    /\ ~IsNA(cell)
    /\ (8 * Val(cell) <= b[1] \/ 8 * Val(cell) >= b[2])
\* (daily[c] < lo) | (daily[c] > hi): a comparison with NaN is False
is_outlier(cell, b) ==
    /\ ~IsNA(cell)
    /\ (8 * Val(cell) < b[1] \/ 8 * Val(cell) > b[2])

\* daily[c].clip(lo, hi), in eighths: NaN stays NaN
clip8(cell, b) ==
    IF IsNA(cell) THEN NA
    ELSE LET x == 8 * Val(cell)
             up == IF x < b[1] THEN b[1] ELSE x
         IN Some(IF up > b[2] THEN b[2] ELSE up)

\* clipped = daily.copy(), a column the loop does not touch, in eighths
copy8(cell) == IF IsNA(cell) THEN NA ELSE Some(8 * Val(cell))

\* one turn of the loop over daily.columns
iqr_clip_column(col) ==
    LET s == sorted(present_values(col, 1)) IN
    IF s = <<>>
    THEN [flags |-> [d \in 1..Len(col) |-> FALSE],
          clipped |-> [d \in 1..Len(col) |-> copy8(col[d])]]
    ELSE LET b == iqr_bounds8(s) IN
         [flags |-> [d \in 1..Len(col) |-> is_outlier(col[d], b)],
          clipped |-> [d \in 1..Len(col) |-> clip8(col[d], b)]]

\* iqr_clip: (flags, clipped), per column
iqr_clip(grid) ==
    [flags |-> [c \in 1..Len(grid) |-> iqr_clip_column(grid[c]).flags],
     clipped |-> [c \in 1..Len(grid) |-> iqr_clip_column(grid[c]).clipped]]

IqrClip ==
    /\ pc = "start"
    /\ clipres' = iqr_clip(daily)
    /\ pc' = "done"
    /\ UNCHANGED <<table, loaded, stages, files, daily, hourly, max_lag, roll, hod, lagres>>

DailyCells == {NA, Some(0), Some(1)}

\* the sensor of section 8 of the specification, and a sensor with gaps beside it
ExampleDaily ==
    << <<Some(1), Some(2), Some(3), Some(4), Some(5), Some(100)>>,
       <<NA, Some(7), Some(7), NA, Some(7), Some(40)>> >>

\* the daily grids tried: one or two sensors over the same days
DailyGrids ==
    {ExampleDaily} \cup
    UNION {[1..m -> [1..n -> DailyCells]] : m \in 1..2, n \in 0..MaxDays}

InitIqr ==
    /\ pc = "start"
    /\ daily \in DailyGrids
    /\ clipres = Null
    /\ table = Null /\ loaded = NoFrame /\ stages = <<>> /\ files = {}
    /\ hourly = Null /\ max_lag = 0 /\ roll = Null /\ hod = Null /\ lagres = Null

SpecIqr == InitIqr /\ [][IqrClip]_vars

(***************************************************************************)
(* Claims about iqr_clip, under SpecIqr.                                   *)
(***************************************************************************)
\* C5: a flag is true exactly when the daily value is present and strictly below
\* Q1 - 1.5 IQR or strictly above Q3 + 1.5 IQR (quartiles by linear interpolation
\* over the sensor's present values); an absent value is never flagged and stays
\* absent; a present clipped value is the daily value clamped into the bounds.
\* For [1,2,3,4,5,100] the bounds are [-1.5, 8.5], only 100 is flagged and it is
\* clipped to 8.5.
C5_IqrFlagsAndClip ==
    pc = "done" =>
        /\ \A c \in 1..Len(daily) : \A d \in 1..Len(daily[c]) :
            LET cell == daily[c][d]
                s == sorted(present_values(daily[c], 1))
                lo8 == 2 * quantile4(s, 1) - 3 * (quantile4(s, 3) - quantile4(s, 1))
                hi8 == 2 * quantile4(s, 3) + 3 * (quantile4(s, 3) - quantile4(s, 1))
            IN IF IsNA(cell)
               THEN /\ clipres.flags[c][d] = FALSE
                    /\ clipres.clipped[c][d] = NA
               ELSE /\ clipres.flags[c][d] = (8 * Val(cell) < lo8 \/ 8 * Val(cell) > hi8)
                    /\ clipres.clipped[c][d] =
                          Some(IF 8 * Val(cell) < lo8 THEN lo8
                               ELSE IF 8 * Val(cell) > hi8 THEN hi8
                               ELSE 8 * Val(cell))
        /\ daily = ExampleDaily =>
            /\ quantile4(sorted(present_values(daily[1], 1)), 1) = 9
            /\ quantile4(sorted(present_values(daily[1], 1)), 3) = 19
            /\ iqr_bounds8(sorted(present_values(daily[1], 1))) = <<-12, 68>>
            /\ clipres.flags[1] = <<FALSE, FALSE, FALSE, FALSE, FALSE, TRUE>>
            /\ clipres.clipped[1] = <<Some(8), Some(16), Some(24), Some(32), Some(40), Some(68)>>

\* the example sensor has been clipped, and beside it a sensor with gaps had its
\* outlier flagged
C5_Witness ==
    /\ pc = "done"
    /\ daily = ExampleDaily
    /\ clipres.flags[1][6]
    /\ clipres.flags[2] = <<FALSE, FALSE, FALSE, FALSE, FALSE, TRUE>>
    /\ clipres.clipped[2][1] = NA

(***************************************************************************)
(* Hourly grids: row k of a grid that starts at the hour `start` has the   *)
(* timestamp start + k - 1; cols holds one sequence of cells per sensor.   *)
(***************************************************************************)
MaxHours == 26    \* rows of the hourly grids given to rolling_stats

\* the timestamp of row k
index(grid, k) == grid.start + k - 1

rows(grid) == IF grid.cols = <<>> THEN 0 ELSE Len(grid.cols[1])

(***************************************************************************)
(* rolling_stats.  A mean is held as <<sum, count>>, a standard deviation  *)
(* by its variance <<n * Sxx - Sx^2, n * (n - 1)>> (ddof = 1).             *)
(***************************************************************************)
window_hours == 24
min_periods == 6

\* as in_window, closed on both sides
in_window_closed_both(tj, tk) == tj >= tk - window_hours /\ tj <= tk
\* rolling("24H"): the window of the row at tk is (tk - 24h, tk], closed on the right
in_window(tj, tk) == tj > tk - window_hours /\ tj <= tk

\* the rows of the window of row k that hold an observation of the column
window_obs(grid, col, k) ==
    {j \in 1..Len(col) : in_window(index(grid, j), index(grid, k)) /\ ~IsNA(col[j])}

\* .mean() of the window, absent below min_periods observations
rolling_mean(grid, col, k) ==
    LET obs == window_obs(grid, col, k) IN
    IF Cardinality(obs) < min_periods THEN NA
    ELSE Some(<<SumOver(obs, [j \in obs |-> Val(col[j])]), Cardinality(obs)>>)

\* .std() of the window, absent below min_periods observations
rolling_std(grid, col, k) ==
    LET obs == window_obs(grid, col, k)
        n == Cardinality(obs)
        sx == SumOver(obs, [j \in obs |-> Val(col[j])])
        sxx == SumOver(obs, [j \in obs |-> Val(col[j]) * Val(col[j])])
    IN IF n < min_periods THEN NA
       ELSE Some(<<n * sxx - sx * sx, n * (n - 1)>>)

\* rolling_stats: the <c>_roll24_mean and <c>_roll24_std columns
rolling_stats(grid) ==
    [mean |-> [c \in 1..Len(grid.cols) |->
                  [k \in 1..rows(grid) |-> rolling_mean(grid, grid.cols[c], k)]],
     std |-> [c \in 1..Len(grid.cols) |->
                  [k \in 1..rows(grid) |-> rolling_std(grid, grid.cols[c], k)]]]

RollingStats ==
    /\ pc = "start"
    /\ roll' = rolling_stats(hourly)
    /\ pc' = "done"
    /\ UNCHANGED <<table, loaded, stages, files, daily, clipres, hourly, max_lag, hod, lagres>>

\* a sensor of n hours that reads 1 up to row sw and 3 after it, with the rows
\* g1..g2 absent
GapColumn(n, sw, g1, g2) ==
    [k \in 1..n |-> IF k >= g1 /\ k <= g2 THEN NA
                    ELSE IF k <= sw THEN Some(1) ELSE Some(3)]

\* the rows after which the reading changes: never, within the first window, later
SwitchRows == {0, 6, 20}

RollingGrids ==
    {[start |-> 0, cols |-> <<GapColumn(n, sw, g1, g2)>>] :
        n \in 0..MaxHours, sw \in SwitchRows, g1 \in 1..(MaxHours + 1), g2 \in 0..MaxHours}

InitRolling ==
    /\ pc = "start"
    /\ hourly \in RollingGrids
    /\ roll = Null
    /\ table = Null /\ loaded = NoFrame /\ stages = <<>> /\ files = {}
    /\ daily = Null /\ clipres = Null /\ max_lag = 0 /\ hod = Null /\ lagres = Null

SpecRolling == InitRolling /\ [][RollingStats]_vars

(***************************************************************************)
(* Claims about rolling_stats, under SpecRolling.                          *)
(***************************************************************************)
\* the observations of column c in the 24 rows that end at row k
Last24(c, k) ==
    {j \in 1..rows(hourly) : j <= k /\ j >= k - 23 /\ hourly.cols[c][j] # NA}

\* C10: a rolling mean and a rolling standard deviation are emitted at a row only
\* if the 24-hour window ending there holds at least 6 observations, and are
\* absent otherwise (so the first 5 rows of a fully populated grid are absent);
\* when a window holds exactly 6 observations, all equal, the deviation is 0.
C10_RollingMinPeriods ==
    pc = "done" =>
        \A c \in 1..Len(hourly.cols) : \A k \in 1..rows(hourly) :
            LET obs == Last24(c, k)
                col == hourly.cols[c]
            IN /\ (roll.mean[c][k] # NA) <=> (Cardinality(obs) >= 6)
               /\ (roll.std[c][k] # NA) <=> (Cardinality(obs) >= 6)
               /\ roll.mean[c][k] # NA =>
                    /\ roll.mean[c][k][1][2] = Cardinality(obs)
                    /\ roll.mean[c][k][1][1] = SumOver(obs, [j \in obs |-> col[j][1]])
               /\ ((\A j \in 1..Len(col) : col[j] # NA) /\ k <= 5) =>
                    (roll.mean[c][k] = NA /\ roll.std[c][k] = NA)
               /\ (Cardinality(obs) = 6 /\ \A i, j \in obs : col[i] = col[j]) =>
                    roll.std[c][k] = Some(<<0, 30>>)

\* a window that has left an earlier observation behind holds exactly 6
\* observations, all equal, and a deviation of 0 is emitted for it
C10_Witness ==
    /\ pc = "done"
    /\ \E k \in 25..rows(hourly) :
        /\ Cardinality(Last24(1, k)) = 6
        /\ roll.std[1][k] = Some(<<0, 30>>)
        /\ \E j \in 1..(k - 24) : hourly.cols[1][j] # NA
        /\ roll.mean[1][k - 1] = NA

(***************************************************************************)
(* hour_of_day_pattern.  A mean is held as <<sum, count>>.                 *)
(***************************************************************************)
MaxHodHours == 26     \* rows of the hourly grids given to hour_of_day_pattern

hours_per_day == 24

\* DatetimeIndex.hour of a timestamp in whole hours
hour_of(ts) == ts % hours_per_day

\* the keys of groupby("hour"): the hours that occur in the frame
group_keys(grid) == {hour_of(index(grid, k)) : k \in 1..rows(grid)}

\* the keys in ascending order (groupby sorts its keys)
RECURSIVE ascending(_)
ascending(S) ==
    IF S = {} THEN <<>>
    ELSE LET m == CHOOSE x \in S : \A y \in S : x <= y
         IN <<m>> \o ascending(S \ {m})

\* .mean(numeric_only=True) of one group of one column: NaN are skipped, and the
\* mean of no value is NaN
group_mean(grid, col, h) ==
    LET obs == {k \in 1..Len(col) : hour_of(index(grid, k)) = h /\ ~IsNA(col[k])} IN
    IF obs = {} THEN NA
    ELSE Some(<<SumOver(obs, [k \in obs |-> Val(col[k])]), Cardinality(obs)>>)

\* the name of the key column that line 89 assigns
str_hour == <<"h", "o", "u", "r">>

\* df["hour"] = df.index.hour: the columns of df after the assignment.  A column
\* named "hour" is replaced where it stands, otherwise the key column is appended;
\* "key" marks the column that now holds the hour of each row.
assign_hour(grid) ==
    IF \E c \in 1..Len(grid.names) : grid.names[c] = str_hour
    THEN [c \in 1..Len(grid.names) |->
             IF grid.names[c] = str_hour
             THEN [name |-> str_hour, key |-> TRUE, cells |-> <<>>]
             ELSE [name |-> grid.names[c], key |-> FALSE, cells |-> grid.cols[c]]]
    ELSE [c \in 1..(Len(grid.names) + 1) |->
             IF c > Len(grid.names)
             THEN [name |-> str_hour, key |-> TRUE, cells |-> <<>>]
             ELSE [name |-> grid.names[c], key |-> FALSE, cells |-> grid.cols[c]]]

\* the columns that groupby("hour") aggregates: all but the key column, in order
RECURSIVE value_columns(_)
value_columns(df) ==
    IF df = <<>> THEN <<>>
    ELSE (IF df[1].key THEN <<>> ELSE <<df[1]>>) \o value_columns(Tail(df))

\* hour_of_day_pattern: one row per key, one column per column of df other than
\* the key
hour_of_day_pattern(grid) ==
    LET keys == ascending(group_keys(grid))
        vcols == value_columns(assign_hour(grid))
    IN [hour |-> keys,
        names |-> [c \in 1..Len(vcols) |-> vcols[c].name],
        mean |-> [c \in 1..Len(vcols) |->
                     [r \in 1..Len(keys) |-> group_mean(grid, vcols[c].cells, keys[r])]]]

HourOfDayPattern ==
    /\ pc = "start"
    /\ hod' = hour_of_day_pattern(hourly)
    /\ pc' = "done"
    /\ UNCHANGED <<table, loaded, stages, files, daily, clipres, hourly, max_lag, roll, lagres>>

\* a sensor of n hours: absent throughout (p = 0) or reading (k * p) % 5 at row k
HodColumn(n, p) == [k \in 1..n |-> IF p = 0 THEN NA ELSE Some((k * p) % 5)]

str_no2 == <<"n", "o", "2">>
str_pm10 == <<"p", "m", "1", "0">>

\* the sensor names of the grids: one or two sensors, one of which may be named
\* "hour"
HodNames ==
    {<<str_no2>>, <<str_hour>>,
     <<str_no2, str_pm10>>, <<str_hour, str_no2>>, <<str_no2, str_hour>>}

HodGrids ==
    {[start |-> t0, names |-> nm,
      cols |-> [c \in 1..Len(nm) |-> HodColumn(n, IF c = 1 THEN p ELSE 3)]] :
        t0 \in 0..(hours_per_day - 1), n \in 1..MaxHodHours, p \in 0..2, nm \in HodNames}

InitHod ==
    /\ pc = "start"
    /\ hourly \in HodGrids
    /\ hod = Null
    /\ table = Null /\ loaded = NoFrame /\ stages = <<>> /\ files = {}
    /\ daily = Null /\ clipres = Null /\ max_lag = 0 /\ roll = Null /\ lagres = Null

SpecHod == InitHod /\ [][HourOfDayPattern]_vars

(***************************************************************************)
(* Claims about hour_of_day_pattern, under SpecHod.                        *)
(***************************************************************************)
AllHours == [h \in 1..24 |-> h - 1]

\* C4: for every hourly grid, also one that covers fewer than 24 hours of day,
\* the output has exactly 24 rows keyed 0..23, and one column per sensor: the
\* columns of the output are the sensors of the grid, in order.
C4_Always24Rows ==
    pc = "done" =>
        /\ hod.hour = AllHours
        /\ hod.names = hourly.names

(***************************************************************************)
(* lag_correlation.  A Pearson correlation is held exactly as <<num, den>> *)
(* standing for num / sqrt(den), with                                      *)
(*   num = n Sxy - Sx Sy   and   den = (n Sxx - Sx^2) (n Syy - Sy^2)       *)
(* over the n rows where both series hold a value; den = 0 stands for NaN  *)
(* (no row, one row, or a constant series).  A rounded correlation is a    *)
(* whole number of 1/10000.                                                *)
(*                                                                         *)
(* The code holds a correlation as the float64 that np.corrcoef returns.   *)
(* Two correlations that differ in exact arithmetic compare in float64 as  *)
(* they do exactly (on these grids they differ by far more than the        *)
(* rounding error).  Two that are equal in exact arithmetic can come out   *)
(* as different float64 values, depending on the rows they are computed    *)
(* from and on the order in which the build sums them: which of the two is *)
(* larger, if any, is not decided here, and best_lag yields every lag the  *)
(* loop can end with.  The float64 values are a function of the two series *)
(* alone, so two pairs of sensors with the same readings end with the same *)
(* lag.  round(x, 4) takes all of them to the same number.                 *)
(***************************************************************************)
MaxLagRows == 3   \* rows of the enumerated grids given to lag_correlation
MaxLag == 2       \* max_lag tried on them
ManySensors == 7  \* sensors of the wide grids given to lag_correlation

\* as shifted_pair, with the series that is shifted exchanged
shifted_pair_swapped(a, b, lag) ==
    [t \in 1..Len(a) |->
        IF lag < 0
        THEN <<a[t], IF t + lag >= 1 THEN b[t + lag] ELSE NA>>
        ELSE <<IF t - lag >= 1 THEN a[t - lag] ELSE NA, b[t]>>]
\* lag < 0: a.shift(-lag) against b; otherwise a against b.shift(lag).
\* shift(k) with k >= 0 moves the values k rows down and leaves NaN above.
shifted_pair(a, b, lag) ==
    [t \in 1..Len(a) |->
        IF lag < 0
        THEN <<IF t + lag >= 1 THEN a[t + lag] ELSE NA, b[t]>>
        ELSE <<a[t], IF t - lag >= 1 THEN b[t - lag] ELSE NA>>]

\* Series.corr: Pearson over the rows where both hold a value
pearson(xy) ==
    LET obs == {t \in 1..Len(xy) : ~IsNA(xy[t][1]) /\ ~IsNA(xy[t][2])}
        n == Cardinality(obs)
        sx == SumOver(obs, [t \in obs |-> Val(xy[t][1])])
        sy == SumOver(obs, [t \in obs |-> Val(xy[t][2])])
        sxx == SumOver(obs, [t \in obs |-> Val(xy[t][1]) * Val(xy[t][1])])
        syy == SumOver(obs, [t \in obs |-> Val(xy[t][2]) * Val(xy[t][2])])
        sxy == SumOver(obs, [t \in obs |-> Val(xy[t][1]) * Val(xy[t][2])])
    IN <<n * sxy - sx * sy, (n * sxx - sx * sx) * (n * syy - sy * sy)>>

\* np.isnan(corr)
isnan(c) == c[2] = 0

\* the sign of num times num^2, to compare correlations without a square root
signed_square(c) == IF c[1] < 0 THEN -(c[1] * c[1]) ELSE c[1] * c[1]

\* c1 > c2 for two correlations that are not NaN
corr_gt(c1, c2) == signed_square(c1) * c2[2] > signed_square(c2) * c1[2]

\* the correlation at one lag
corr_at(a, b, lag) == pearson(shifted_pair(a, b, lag))

\* the loop over range(-max_lag, max_lag + 1); best starts as (None, -inf) and is
\* replaced when corr is not NaN and corr > best[1].  The set of the values best
\* can have after the loop: where corr and best[1] are equal in exact arithmetic
\* the float64 comparison corr > best[1] may be true or false.
RECURSIVE best_lag(_, _, _, _, _)
best_lag(a, b, lag, L, best) ==
    IF lag > L THEN {best}
    ELSE LET corr == corr_at(a, b, lag)
             replaced == best_lag(a, b, lag + 1, L, [lag |-> Some(lag), corr |-> corr])
             kept == best_lag(a, b, lag + 1, L, best)
         IN IF isnan(corr) THEN kept
            ELSE IF best.lag = NA \/ corr_gt(corr, best.corr) THEN replaced
            ELSE IF corr_gt(best.corr, corr) THEN kept
            ELSE replaced \cup kept

\* floor(10^digits * p / q) for 0 <= p <= q, digit by digit
RECURSIVE long_div(_, _, _, _)
long_div(quot, rem, q, digits) ==
    IF digits = 0 THEN <<quot, rem>>
    ELSE long_div(quot * 10 + (rem * 10) \div q, (rem * 10) % q, q, digits - 1)

\* the largest k in lo..hi with k * k <= f
RECURSIVE isqrt(_, _, _)
isqrt(f, lo, hi) ==
    IF lo = hi THEN lo
    ELSE LET mid == (lo + hi + 1) \div 2
         IN IF mid * mid <= f THEN isqrt(f, mid, hi) ELSE isqrt(f, lo, mid - 1)

\* round(corr, 4) in 1/10000: k = floor(20000 |corr|), halves go to the even side
round4(c) ==
    LET p == 4 * c[1] * c[1]
        d == long_div(p \div c[2], p % c[2], c[2], 8)
        k == isqrt(d[1], 0, 20000)
        exact == d[2] = 0 /\ k * k = d[1]
        m == k \div 2
        r == IF k % 2 = 0 THEN m
             ELSE IF exact /\ m % 2 = 0 THEN m
             ELSE m + 1
    IN IF c[1] < 0 THEN -r ELSE r

\* every way the loops of one call can end: one value of best for each pair of
\* series
RECURSIVE best_of(_, _)
best_of(S, L) ==
    IF S = {} THEN {<<>>}
    ELSE LET ab == CHOOSE x \in S : TRUE
             ends == best_lag(ab[1], ab[2], -L, L, [lag |-> NA, corr |-> <<0, 0>>])
         IN {(ab :> e) @@ f : e \in ends, f \in best_of(S \ {ab}, L)}

\* the dict appended to results for the pair (cols[i], cols[j]), best being the
\* value the loop ended with
pair_result(ij, best) ==
    [pair |-> ij,
     best_lag_h |-> best.lag,
     corr |-> IF best.lag = NA THEN [kind |-> "-inf", v |-> 0]
              ELSE [kind |-> "num", v |-> round4(best.corr)]]

\* a <= b on the corr column; -inf is below every number
corr_le(a, b) ==
    \/ a.kind = "-inf"
    \/ a.kind = "num" /\ b.kind = "num" /\ a.v <= b.v

\* the corr column as whole-number sort keys: a rounded correlation lies in
\* -10000..10000 and -inf sorts below every number
corr_key(c) == IF c.kind = "-inf" THEN -10001 ELSE c.v

\* as sort_values_corr, ascending
sort_values_corr_ascending(results) ==
    LET indexer == nargsort([r \in 1..Len(results) |-> corr_key(results[r].corr)], TRUE)
    IN [r \in 1..Len(results) |-> results[indexer[r]]]
\* sort_values("corr", ascending=False): kind defaults to "quicksort"
sort_values_corr(results) ==
    LET indexer == nargsort([r \in 1..Len(results) |-> corr_key(results[r].corr)], FALSE)
    IN [r \in 1..Len(results) |-> results[indexer[r]]]

\* lag_correlation(grid, L): the rows returned, or the KeyError raised, for every
\* way the loops can end
lag_correlation(grid, L) ==
    LET pairs == pair_list(Len(grid.cols), 1, 2)
        series(r) == <<grid.cols[pairs[r][1]], grid.cols[pairs[r][2]]>>
        results(bests) ==
            [r \in 1..Len(pairs) |-> pair_result(pairs[r], bests[series(r)])]
    IN {IF sort_raises(results(bests))
        THEN [status |-> "KeyError", rows |-> <<>>]
        ELSE [status |-> "ok", rows |-> sort_values_corr(results(bests))] :
            bests \in best_of({series(r) : r \in 1..Len(pairs)}, L)}

LagCorrelation ==
    /\ pc = "start"
    /\ lagres' \in lag_correlation(hourly, max_lag)
    /\ pc' = "done"
    /\ UNCHANGED <<table, loaded, stages, files, daily, clipres, hourly, max_lag, roll, hod>>

LagCells == {Some(0), Some(1)}

\* the sensors of a grid of n rows: every reading 0 or 1, or absent throughout (a
\* sensor without any observation stays absent after imputation)
LagColumns(n) == [1..n -> LagCells] \cup {[k \in 1..n |-> NA]}

\* grids of no, one, two or three sensors, and grids of ManySensors sensors that
\* all read the same but for at most one
LagGrids ==
    UNION {{[start |-> 0, cols |-> c] : c \in UNION {[1..m -> LagColumns(n)] : m \in 0..3}}
           \cup
           {[start |-> 0, cols |-> [i \in 1..ManySensors |-> IF i = odd THEN d ELSE c]] :
                c \in LagColumns(n), d \in LagColumns(n), odd \in 0..ManySensors}
           : n \in 1..MaxLagRows}

InitLag ==
    /\ pc = "start"
    /\ hourly \in LagGrids
    /\ max_lag \in 0..MaxLag
    /\ lagres = Null
    /\ table = Null /\ loaded = NoFrame /\ stages = <<>> /\ files = {}
    /\ daily = Null /\ clipres = Null /\ roll = Null /\ hod = Null

SpecLag == InitLag /\ [][LagCorrelation]_vars

(***************************************************************************)
(* Claims about lag_correlation, under SpecLag.                            *)
(***************************************************************************)
\* C1: on a grid with exactly one sensor column lag_correlation returns normally
\* with an empty pair list; it raises no error, whatever max_lag >= 0.
C1_SingleSensorEmptyList ==
    (pc = "done" /\ Len(hourly.cols) = 1) =>
        (lagres.status = "ok" /\ lagres.rows = <<>>)

\* no lag in -max_lag..max_lag gives the pair a correlation that is not NaN
NoDefinedCorr(i, j) ==
    \A lag \in (-max_lag)..max_lag : isnan(corr_at(hourly.cols[i], hourly.cols[j], lag))

RowOf(i, j) == CHOOSE r \in 1..Len(lagres.rows) : lagres.rows[r].pair = <<i, j>>

SensorPairs == {ij \in (1..Len(hourly.cols)) \X (1..Len(hourly.cols)) : ij[1] < ij[2]}

\* C6 as stated: a pair for which no lag yields a defined correlation gets an
\* absent best lag and a not-a-number correlation score, in a row placed after
\* every pair with a defined correlation.
C6_UndefinedIsNaN ==
    (pc = "done" /\ lagres.status = "ok") =>
        \A ij \in SensorPairs : NoDefinedCorr(ij[1], ij[2]) =>
            /\ lagres.rows[RowOf(ij[1], ij[2])].best_lag_h = NA
            /\ lagres.rows[RowOf(ij[1], ij[2])].corr.kind = "nan"
            /\ \A r \in 1..Len(lagres.rows) :
                  lagres.rows[r].corr.kind = "num" => r < RowOf(ij[1], ij[2])

\* C6 amended: such a pair gets an absent best lag and the correlation score
\* minus infinity (the start value of the search, never NaN), in a row placed
\* after every pair with a defined correlation; every other pair has a best lag
\* and a finite score.
C6_UndefinedIsMinusInf ==
    (pc = "done" /\ lagres.status = "ok") =>
        \A ij \in SensorPairs :
            LET row == lagres.rows[RowOf(ij[1], ij[2])] IN
            IF NoDefinedCorr(ij[1], ij[2])
            THEN /\ row.best_lag_h = NA
                 /\ row.corr.kind = "-inf"
                 /\ \A r \in 1..Len(lagres.rows) :
                       lagres.rows[r].corr.kind = "num" => r < RowOf(ij[1], ij[2])
            ELSE /\ row.best_lag_h # NA
                 /\ row.corr.kind = "num"

\* the first pair in enumeration order has no defined correlation, a later pair
\* has one, and the rows have been sorted
C6_Witness ==
    /\ pc = "done" /\ lagres.status = "ok"
    /\ Len(hourly.cols) = 3
    /\ NoDefinedCorr(1, 2)
    /\ ~NoDefinedCorr(2, 3)
    /\ lagres.rows[3].corr.kind = "-inf"
    /\ lagres.rows[1].corr.kind = "num"

\* C7: the rows are in non-increasing order of the rounded correlation, there is
\* exactly one row per unordered sensor pair, and two pairs with equal correlation
\* appear in enumeration order (i increasing, then j increasing): the sort is stable.
C7_StableDescending ==
    (pc = "done" /\ lagres.status = "ok") =>
        /\ \A r, q \in 1..Len(lagres.rows) :
              r < q => corr_le(lagres.rows[q].corr, lagres.rows[r].corr)
        /\ {lagres.rows[r].pair : r \in 1..Len(lagres.rows)} = SensorPairs
        /\ Len(lagres.rows) = Cardinality(SensorPairs)
        /\ \A r, q \in 1..Len(lagres.rows) :
              (r < q /\ lagres.rows[r].corr = lagres.rows[q].corr) =>
                  \/ lagres.rows[r].pair[1] < lagres.rows[q].pair[1]
                  \/ /\ lagres.rows[r].pair[1] = lagres.rows[q].pair[1]
                     /\ lagres.rows[r].pair[2] < lagres.rows[q].pair[2]

(***************************************************************************)
(* lag_correlation on grids of two sensors where one is the other delayed  *)
(* by 3 rows.                                                              *)
(***************************************************************************)
MaxShiftRows == 7     \* rows of these grids
MaxShiftLag == 4      \* max_lag tried on them, from 3

\* b[t] = a[t - 3] from row 4 on, the first three rows of b read pad
Delayed(a, pad) == [t \in 1..Len(a) |-> IF t <= 3 THEN pad[t] ELSE a[t - 3]]

\* the pair (A, B) with B = A delayed by 3 rows, and the pair the other way round
ShiftGrids ==
    UNION {{[start |-> 0, cols |-> <<a, Delayed(a, pad)>>] :
                a \in [1..n -> LagCells], pad \in [1..3 -> LagCells]}
           \cup
           {[start |-> 0, cols |-> <<Delayed(a, pad), a>>] :
                a \in [1..n -> LagCells], pad \in [1..3 -> LagCells]}
           : n \in 4..MaxShiftRows}

InitLagShift ==
    /\ pc = "start"
    /\ hourly \in ShiftGrids
    /\ max_lag \in 3..MaxShiftLag
    /\ lagres = Null
    /\ table = Null /\ loaded = NoFrame /\ stages = <<>> /\ files = {}
    /\ daily = Null /\ clipres = Null /\ roll = Null /\ hod = Null

SpecLagShift == InitLagShift /\ [][LagCorrelation]_vars

\* column j is column i delayed by 3 rows
IsDelayedBy3(i, j) ==
    /\ rows(hourly) > 3
    /\ \A t \in 4..rows(hourly) : hourly.cols[j][t] = hourly.cols[i][t - 3]

\* the series of columns 1 and 2 aligned at `lag` in the sense of the code: row t
\* of column 1 against row t - lag of column 2
Aligned(lag) ==
    [t \in 1..rows(hourly) |->
        <<hourly.cols[1][t],
          IF t - lag >= 1 /\ t - lag <= rows(hourly) THEN hourly.cols[2][t - lag] ELSE NA>>]

\* the alignment `lag` correlates perfectly, and no other lag within max_lag
\* correlates as well or better
UniqueBest(lag) ==
    /\ ~isnan(pearson(Aligned(lag)))
    /\ \A other \in (-max_lag)..max_lag : other # lag =>
          \/ isnan(pearson(Aligned(other)))
          \/ corr_gt(pearson(Aligned(lag)), pearson(Aligned(other)))

\* C2 as stated: when B is A delayed by 3 rows (B[t] = A[t-3]) and no other lag
\* within max_lag >= 3 does as well, the pair A~B is reported with best lag +3 and
\* correlation 1.0: a positive lag means B lags A.
C2_DelayedReportsPlus3 ==
    (pc = "done" /\ IsDelayedBy3(1, 2) /\ UniqueBest(-3)) =>
        /\ lagres.rows[1].pair = <<1, 2>>
        /\ lagres.rows[1].best_lag_h = Some(3)
        /\ lagres.rows[1].corr = [kind |-> "num", v |-> 10000]

\* C2 amended: in that case the pair A~B is reported with best lag -3 and
\* correlation 1.0; +3 is reported when A is B delayed by 3 rows: a positive lag
\* means that A, the first sensor of the pair, lags B.
C2_DelayedReportsMinus3 ==
    /\ (pc = "done" /\ IsDelayedBy3(1, 2) /\ UniqueBest(-3)) =>
          /\ lagres.status = "ok"
          /\ lagres.rows[1].pair = <<1, 2>>
          /\ lagres.rows[1].best_lag_h = Some(-3)
          /\ lagres.rows[1].corr = [kind |-> "num", v |-> 10000]
    /\ (pc = "done" /\ IsDelayedBy3(2, 1) /\ UniqueBest(3)) =>
          /\ lagres.status = "ok"
          /\ lagres.rows[1].pair = <<1, 2>>
          /\ lagres.rows[1].best_lag_h = Some(3)
          /\ lagres.rows[1].corr = [kind |-> "num", v |-> 10000]

\* B is A delayed by 3 rows, no other lag does as well, and the search has run
\* over lags beyond 3
C2_Witness ==
    /\ pc = "done"
    /\ max_lag > 3
    /\ IsDelayedBy3(1, 2) /\ UniqueBest(-3)
    /\ ~IsDelayedBy3(2, 1)
    /\ lagres.rows[1].best_lag_h = Some(-3)

====
